---- MODULE Spec2Model ----
(***************************************************************************)
(* SMS quiz of notchuks/sano: the in-memory session store, the quiz        *)
(* engine (SmsQuizService), the outbound gateway calls (sendSms,           *)
(* subscribeUser, chargeUser) and the webhook POST /sms/incoming that      *)
(* chains them.                                                            *)
(*                                                                         *)
(* Node runs one callback at a time: the code between two awaits is one    *)
(* atomic step, and every await is a point where another dispatch may run. *)
(* Inbound texts are sequences of one-character strings so that trim()     *)
(* and toUpperCase() are computed; outbound texts are strings.             *)
(***************************************************************************)
EXTENDS Integers, Sequences, FiniteSets, TLC

\* ------------------------------------------------------------------ bounds
\* rows the questions table may hold when getRandomQuestions reads it
MaxRows == 2

\* PISI_RETRY_MAX_ATTEMPTS as the environment sets it
EnvMaxAttempts == 2

\* the largest PISI_RETRY_MAX_ATTEMPTS tried when one gateway call runs alone
MaxEnvAttempts == 3

\* Math.random() is drawn from the fractions k / RandomSteps, 0 <= k < RandomSteps
RandomSteps == 200

\* the latest value of Date.now(), counted from the start of the process
MaxClock == 2

\* the requests built when the transaction ids are looked at alone
MaxRequests == 2

\* the dispatches that may be in flight at once
Tasks == {"d1", "d2"}

\* the subscribers that send messages
Subscribers == {"2547000000"}

\* the phone numbers a session may be kept for
Callers == {"2547000000", "2547000001"}

\* ------------------------------------------------------------- JS strings
Whitespace == {" "}

UpperChar(c) ==
  CASE c = "a" -> "A"
    [] c = "b" -> "B"
    [] c = "c" -> "C"
    [] c = "d" -> "D"
    [] c = "m" -> "M"
    [] c = "t" -> "T"
    [] c = "w" -> "W"
    [] OTHER -> c

toUpperCase(s) == [i \in DOMAIN s |-> UpperChar(s[i])]

RECURSIVE trimStart(_)
trimStart(s) ==
  IF s # <<>> /\ Head(s) \in Whitespace THEN trimStart(Tail(s)) ELSE s

RECURSIVE trimEnd(_)
trimEnd(s) ==
  IF s # <<>> /\ s[Len(s)] \in Whitespace
  THEN trimEnd(SubSeq(s, 1, Len(s) - 1))
  ELSE s

trim(s) == trimEnd(trimStart(s))

\* ------------------------------------------------------------- questions
\* the answer column of row i of the questions table
RowAnswer(i) ==
  CASE i % 3 = 1 -> <<"A">>
    [] i % 3 = 2 -> <<" ", "b">>
    [] OTHER -> <<"C", " ">>

\* row i of the questions table
DbRow(i) ==
  [id |-> i,
   question |-> "T" \o ToString(i),
   optionA |-> "a" \o ToString(i),
   optionB |-> "b" \o ToString(i),
   optionC |-> "c" \o ToString(i),
   optionD |-> "d" \o ToString(i),
   answer |-> RowAnswer(i)]

\* the table when it holds n rows
DbRows(n) == [i \in 1..n |-> DbRow(i)]

QueryLimit == 10

Min(a, b) == IF a < b THEN a ELSE b

\* db.select().from(dbQuestions).limit(10), mapped to Question objects
getRandomQuestions(rows) ==
  [i \in 1..Min(Len(rows), QueryLimit) |->
     [id |-> rows[i].id,
      text |-> rows[i].question,
      options |-> <<rows[i].optionA, rows[i].optionB, rows[i].optionC, rows[i].optionD>>,
      correctAnswer |-> rows[i].answer]]

\* questions[0] of an empty array, and nextQuestion: null
NoQuestion == [id |-> 0, text |-> "", options |-> <<>>, correctAnswer |-> <<>>]

\* questions[index] of a JS array: undefined outside the array
questionAt(questions, index) ==
  IF index + 1 \in DOMAIN questions THEN questions[index + 1] ELSE NoQuestion

\* --------------------------------------------------------- session store
\* sessionStore is a function whose domain is the set of keys of the object
getSession(store, phoneNumber) == store[phoneNumber]

hasSession(store, phoneNumber) == phoneNumber \in DOMAIN store

\* setSession that replaces the whole store
setSessionAlone(store, phoneNumber, session) == [p \in {phoneNumber} |-> session]

\* sessionStore[phoneNumber] = session
setSession(store, phoneNumber, session) ==
  [p \in DOMAIN store \cup {phoneNumber} |->
     IF p = phoneNumber THEN session ELSE store[p]]

\* clearSession that deletes nothing
clearSessionKeeps(store, phoneNumber) == store

\* delete sessionStore[phoneNumber]
clearSession(store, phoneNumber) ==
  [p \in DOMAIN store \ {phoneNumber} |-> store[p]]

\* ----------------------------------------------------------- quiz engine
\* a session that does not carry its subscriber's number
NewSessionUnnamed(phoneNumber, questions) ==
  [phoneNumber |-> "",
   currentQuestionIndex |-> 0,
   questions |-> questions,
   currentScore |-> 0,
   isCompleted |-> FALSE,
   aggregateScore |-> 0]

\* the session literal of startQuiz
NewSession(phoneNumber, questions) ==
  [phoneNumber |-> phoneNumber,
   currentQuestionIndex |-> 0,
   questions |-> questions,
   currentScore |-> 0,
   isCompleted |-> FALSE,
   aggregateScore |-> 0]

\* startQuiz that keeps a session the subscriber already has
startQuizResumes(store, phoneNumber, questions) ==
  [store |-> IF hasSession(store, phoneNumber) THEN store
             ELSE setSession(store, phoneNumber, NewSession(phoneNumber, questions)),
   firstQ |-> questionAt(questions, 0)]

\* SmsQuizService.startQuiz after getRandomQuestions has returned questions
startQuiz(store, phoneNumber, questions) ==
  [store |-> setSession(store, phoneNumber, NewSession(phoneNumber, questions)),
   firstQ |-> questionAt(questions, 0)]

NoActiveSessionMsg == "No active quiz session. Send START to begin."

NoSessionCopy == NewSession("", <<>>)

NoResult ==
  [kind |-> "none", error |-> "", correct |-> FALSE, nextQuestion |-> NoQuestion,
   done |-> FALSE, score |-> 0, aggregateScore |-> 0, session |-> NoSessionCopy]

\* a comparison of the texts as they are
isCorrectAnswerExact(currentQ, answer) == currentQ.correctAnswer = answer

\* the answer matches the question's token after trim and upper-casing
isCorrectAnswer(currentQ, answer) ==
  toUpperCase(trim(currentQ.correctAnswer)) = toUpperCase(trim(answer))

\* advanceIndex that leaves the subscriber on the same question
advanceIndexStuck(currentQuestionIndex) == currentQuestionIndex

\* the index after an answer
advanceIndex(currentQuestionIndex) == currentQuestionIndex + 1

\* quizFinished one answer early
quizFinishedEarly(currentQuestionIndex, questions) ==
  currentQuestionIndex + 1 >= Len(questions)

\* quizFinished with > for >=
quizFinishedLate(currentQuestionIndex, questions) ==
  currentQuestionIndex > Len(questions)

\* the session is finished at this index
quizFinished(currentQuestionIndex, questions) ==
  currentQuestionIndex >= Len(questions)

\* foldAggregate that leaves the aggregate as it was
foldAggregateDropped(aggregateScore, currentScore) == aggregateScore

\* session.aggregateScore += session.currentScore
foldAggregate(aggregateScore, currentScore) == aggregateScore + currentScore

\* SmsQuizService.processAnswer: no await inside, so it runs as one step.
\* result.kind is "error" for the {error} return, "value" for the normal
\* return, "threw" when questions[currentQuestionIndex] is undefined and
\* reading its correctAnswer raises a TypeError; result.session is the
\* local session object as the call leaves it. That object is the one the
\* store holds, so the store has its new field values when clearSession or
\* setSession is called.
processAnswer(store, phoneNumber, answer) ==
  IF ~hasSession(store, phoneNumber) \/ getSession(store, phoneNumber).isCompleted
  THEN [store |-> store,
        result |-> [NoResult EXCEPT !.kind = "error", !.error = NoActiveSessionMsg]]
  ELSE
    LET session == getSession(store, phoneNumber) IN
    IF questionAt(session.questions, session.currentQuestionIndex) = NoQuestion
    THEN [store |-> store,
          result |-> [NoResult EXCEPT !.kind = "threw", !.session = session]]
    ELSE
      LET currentQ == questionAt(session.questions, session.currentQuestionIndex)
          isCorrect == isCorrectAnswer(currentQ, answer)
          scored == [session EXCEPT
                       !.currentScore = IF isCorrect THEN @ + 1 ELSE @,
                       !.currentQuestionIndex = advanceIndex(@)]
          done == quizFinished(scored.currentQuestionIndex, scored.questions)
          final == IF done
                   THEN [scored EXCEPT !.isCompleted = TRUE,
                                       !.aggregateScore = foldAggregate(@, scored.currentScore)]
                   ELSE scored
      IN [store |-> IF done
                    THEN clearSession(setSession(store, phoneNumber, final), phoneNumber)
                    ELSE setSession(store, phoneNumber, final),
          result |-> [kind |-> "value",
                      error |-> "",
                      correct |-> isCorrect,
                      nextQuestion |-> IF done THEN NoQuestion
                                       ELSE questionAt(final.questions,
                                                       final.currentQuestionIndex),
                      done |-> done,
                      score |-> final.currentScore,
                      aggregateScore |-> final.aggregateScore,
                      session |-> final]]

\* -------------------------------------------------------------- gateway
\* what one HTTP call to the gateway may come back with; status 0 is no
\* response at all (network error or the 10 s timeout)
Responses ==
  {[status |-> 0, success |-> FALSE],
   [status |-> 200, success |-> TRUE],
   [status |-> 200, success |-> FALSE],
   [status |-> 400, success |-> FALSE],
   [status |-> 404, success |-> FALSE],
   [status |-> 408, success |-> FALSE],
   [status |-> 429, success |-> FALSE],
   [status |-> 500, success |-> FALSE],
   [status |-> 503, success |-> FALSE]}

\* axios resolves on a 2xx status and rejects otherwise
axiosResolves(r) == r.status >= 200 /\ r.status < 300

\* sendSms that swallows the rejection
sendSmsOutcomeSwallow(r) == "return"

\* sendSms: one call, the body is returned whatever it says
sendSmsOutcome(r) == IF axiosResolves(r) THEN "return" ELSE "throw"

Unset == 0

\* Number(process.env.PISI_RETRY_MAX_ATTEMPTS) || 5
retryMaxAttempts(envValue) == IF envValue = Unset THEN 5 ELSE envValue

\* a test that retries every rejected request
isRetryableAllErrors(status) == status = 0 \/ status >= 400

\* !status || status >= 500 || status === 429 || status === 408
isRetryable(status) ==
  status = 0 \/ status >= 500 \/ status = 429 \/ status = 408

\* attemptOutcome that takes any 2xx answer for a success
attemptOutcomeStatusOnly(r, att, maxAtt) ==
  IF axiosResolves(r) THEN "return"
  ELSE IF isRetryable(r.status) /\ att < maxAtt THEN "sleep" ELSE "throw"

\* attemptOutcome that sleeps after the last attempt too
attemptOutcomeSleepsLast(r, att, maxAtt) ==
  IF axiosResolves(r)
  THEN IF r.success THEN "return"
       ELSE IF att <= maxAtt THEN "sleep" ELSE "throw"
  ELSE IF isRetryable(r.status) /\ att <= maxAtt THEN "sleep" ELSE "throw"

\* one pass of the retry loop of subscribeUser: the Error
\* thrown for a non-success body on the last attempt is caught by the same
\* catch block, has no response status, and is rethrown there
attemptOutcome(r, att, maxAtt) ==
  IF axiosResolves(r)
  THEN IF r.success THEN "return"
       ELSE IF att < maxAtt THEN "sleep" ELSE "throw"
  ELSE IF isRetryable(r.status) /\ att < maxAtt THEN "sleep" ELSE "throw"

\* a test that gives up on a request timeout
chargeIsRetryableNo408(status) == status = 0 \/ status >= 500 \/ status = 429

DefaultBaseDelayMs == 500
DefaultMaxDelayMs == 5000

\* Number(process.env.PISI_RETRY_BASE_DELAY_MS) || 500
retryBaseDelayMs(envValue) == IF envValue = Unset THEN DefaultBaseDelayMs ELSE envValue

\* Number(process.env.PISI_RETRY_MAX_DELAY_MS) || 5000
retryMaxDelayMs(envValue) == IF envValue = Unset THEN DefaultMaxDelayMs ELSE envValue

JitterRange == 100

\* Math.floor(Math.random() * 100) for Math.random() = k / RandomSteps
jitterOf(k) == (k * JitterRange) \div RandomSteps

\* computeDelay that doubles once too often
computeDelayDoubled(att, baseDelayMs, maxDelayMs, jitter) ==
  (IF maxDelayMs < baseDelayMs * 2^att THEN maxDelayMs ELSE baseDelayMs * 2^att)
    + jitter

\* Math.min(maxDelayMs, baseDelayMs * Math.pow(2, attempt - 1)) + jitter
computeDelay(att, baseDelayMs, maxDelayMs, jitter) ==
  (IF maxDelayMs < baseDelayMs * 2^(att - 1)
   THEN maxDelayMs ELSE baseDelayMs * 2^(att - 1)) + jitter

\* the same test in chargeUser's catch block
chargeIsRetryable(status) ==
  status = 0 \/ status >= 500 \/ status = 429 \/ status = 408

\* chargeAttemptOutcome that takes any 2xx answer for a success
chargeAttemptOutcomeStatusOnly(r, att, maxAtt) ==
  IF axiosResolves(r) THEN "return"
  ELSE IF chargeIsRetryable(r.status) /\ att < maxAtt THEN "sleep" ELSE "throw"

\* one pass of the retry loop of chargeUser
chargeAttemptOutcome(r, att, maxAtt) ==
  IF axiosResolves(r)
  THEN IF r.success THEN "return"
       ELSE IF att < maxAtt THEN "sleep" ELSE "throw"
  ELSE IF chargeIsRetryable(r.status) /\ att < maxAtt THEN "sleep" ELSE "throw"

\* ------------------------------------------------------------ dispatcher
\* missingField that rejects only when both fields are absent
missingFieldBoth(f, m) == f = "" /\ m = <<>>

\* !from || !message
missingField(f, m) == f = "" \/ m = <<>>

BTD == <<"B", "T", "D">>
BTW == <<"B", "T", "W">>
BTM == <<"B", "T", "M">>

\* the raw text taken as the keyword
keywordOfRaw(msg) == msg

\* message.trim().toUpperCase()
keywordOf(msg) == toUpperCase(trim(msg))

isStartKeyword(msg) == keywordOf(msg) \in {BTD, BTW, BTM}

\* planOf that gives no keyword a plan
planOfNone(msg) == ""

\* the plan the keyword's branch subscribes and charges, "" if it does neither
planOf(msg) == IF keywordOf(msg) = BTD THEN "DAILY" ELSE ""

welcomeText(msg) ==
  CASE keywordOf(msg) = BTD ->
         "Welcome to Brain Teaser! Answer simple questions and stand a chance to win fantastic prizes."
    [] keywordOf(msg) = BTW ->
         "Welcome to Brain Teaser Weekly! Answer simple questions and stand a chance to win fantastic prizes."
    [] OTHER ->
         "Welcome to Brain Teaser Monthly! Answer simple questions and stand a chance to win fantastic prizes."

optionLines(q) ==
  "\nA) " \o q.options[1] \o "\nB) " \o q.options[2]
    \o "\nC) " \o q.options[3] \o "\nD) " \o q.options[4]

startReply(firstQ) == "Quiz started!\nQ1: " \o firstQ.text \o optionLines(firstQ)

\* answerReply without the branch for result.error
answerReplyNoError(res) ==
  IF res.done
  THEN "Quiz complete! Your score: " \o ToString(res.score) \o "/10. Aggregate: "
         \o ToString(res.aggregateScore)
  ELSE IF res.correct THEN "Correct!" ELSE "Wrong!"

answerReply(res) ==
  IF res.kind = "error" THEN res.error
  ELSE IF res.done
  THEN "Quiz complete! Your score: " \o ToString(res.score) \o "/10. Aggregate: "
         \o ToString(res.aggregateScore)
  ELSE IF res.nextQuestion # NoQuestion
  THEN (IF res.correct THEN "Correct!" ELSE "Wrong!") \o "\nQ"
         \o ToString(res.nextQuestion.id) \o ": " \o res.nextQuestion.text
         \o optionLines(res.nextQuestion)
  ELSE IF res.correct THEN "Correct!" ELSE "Wrong!"

\* the texts a subscriber may send; <<>> is a missing or empty message
Messages ==
  {<<" ", "b", "t", "d">>, BTW, <<"b", "t", "m">>, <<" ", "a", " ">>, <<"B">>, <<>>}

\* "" is a missing or empty `from`
Senders == Subscribers \cup {""}

VARIABLES
  sessionStore,   \* session.ts sessionStore
  maxAttempts,    \* the retry limit read from the environment
  pc,             \* where each dispatch stands
  from,           \* request.body.from
  message,        \* request.body.message
  attempt,        \* the loop variable of subscribeUser / chargeUser
  firstQ,         \* what startQuiz returned
  result,         \* what processAnswer returned
  responseMsg,    \* the reply text composed so far
  calls,          \* the calls the dispatch has issued, in order
  thrown,         \* the error that ended the dispatch, "" if none
  http,           \* the status of the HTTP response sent, 0 if none yet
  answerCount,    \* answers accepted for the subscriber since its last start
  correctCount,   \* of those, the matching ones
  lastAggregate,  \* the aggregate reported at the subscriber's last completion
  exec,           \* one sendSms / subscribeUser / chargeUser call run on its own,
                  \* with its payload's trxid and the trxid each post carried
  timer,          \* the backoff settings and the last delay computeDelay returned
  trx             \* Date.now() and the requests built so far with their trxid

vars ==
  <<sessionStore, maxAttempts, pc, from, message, attempt, firstQ, result,
    responseMsg, calls, thrown, http, answerCount, correctCount, lastAggregate,
    exec, timer, trx>>

\* the state of the functions run on their own
aloneVars == <<exec, timer, trx>>

dispatchVars ==
  <<sessionStore, pc, from, message, attempt, firstQ, result, responseMsg, calls,
    thrown, http, answerCount, correctCount, lastAggregate>>

taskVars == <<from, message, attempt, firstQ, result, responseMsg, calls, thrown, http>>
ghostVars == <<answerCount, correctCount, lastAggregate>>

\* nothing was thrown
NoError == [text |-> "", attempt |-> 0, unit |-> "", message |-> ""]

\* no gateway call is running on its own
ExecIdle ==
  [kind |-> "none", phase |-> "idle", attempt |-> 0, responses |-> <<>>,
   sleeps |-> <<>>, error |-> NoError, trxid |-> "", posted |-> <<>>]

\* PISI_RETRY_BASE_DELAY_MS and PISI_RETRY_MAX_DELAY_MS unset, no delay computed
TimerIdle ==
  [baseDelayMs |-> retryBaseDelayMs(Unset), maxDelayMs |-> retryMaxDelayMs(Unset),
   attempt |-> 0, jitter |-> 0, ms |-> 0]

\* the process has just started and has built no request
TrxIdle == [now |-> 0, issued |-> <<>>]

InitDispatch ==
  /\ sessionStore = <<>>
  /\ pc = [t \in Tasks |-> "idle"]
  /\ from = [t \in Tasks |-> ""]
  /\ message = [t \in Tasks |-> <<>>]
  /\ attempt = [t \in Tasks |-> 0]
  /\ firstQ = [t \in Tasks |-> NoQuestion]
  /\ result = [t \in Tasks |-> NoResult]
  /\ responseMsg = [t \in Tasks |-> ""]
  /\ calls = [t \in Tasks |-> <<>>]
  /\ thrown = [t \in Tasks |-> ""]
  /\ http = [t \in Tasks |-> 0]
  /\ answerCount = [s \in Callers |-> 0]
  /\ correctCount = [s \in Callers |-> 0]
  /\ lastAggregate = [s \in Callers |-> 0]

Init ==
  /\ InitDispatch
  /\ maxAttempts = retryMaxAttempts(EnvMaxAttempts)
  /\ exec = ExecIdle
  /\ timer = TimerIdle
  /\ trx = TrxIdle

\* the gateway took the action: a 2xx answer, and for subscribe and charge
\* a body that says success
accepted(kind, r) ==
  axiosResolves(r) /\ (kind \in {"subscribe", "charge"} => r.success)

\* a call as the dispatch issues it
Call(kind, purpose, to, text, plan) ==
  [kind |-> kind, purpose |-> purpose, to |-> to, text |-> text, plan |-> plan,
   state |-> "pending", delivered |-> FALSE]

issue(log, call) == Append(log, call)

\* the last call issued has returned (state "ok") or thrown ("failed");
\* delivered records whether the gateway took it
settle(log, state, delivered) ==
  [log EXCEPT ![Len(log)].state = state, ![Len(log)].delivered = delivered]

\* --------------------------------------------------------------- actions
\* a webhook request from one of senders, carrying one of texts, reaches
\* the server
ArriveWith(t, senders, texts) ==
  /\ pc[t] = "idle"
  /\ \E f \in senders, m \in texts :
       /\ from' = [from EXCEPT ![t] = f]
       /\ message' = [message EXCEPT ![t] = m]
  /\ pc' = [pc EXCEPT ![t] = "pending"]
  /\ UNCHANGED <<sessionStore, maxAttempts, attempt, firstQ, result, responseMsg,
                 calls, thrown, http, ghostVars>>

Arrive(t) == ArriveWith(t, Senders, Messages)

\* the handler rejects a request without from or message
Reject(t) ==
  /\ pc[t] = "pending"
  /\ missingField(from[t], message[t])
  /\ http' = [http EXCEPT ![t] = 400]
  /\ pc' = [pc EXCEPT ![t] = "responded"]
  /\ UNCHANGED <<sessionStore, maxAttempts, from, message, attempt, firstQ, result,
                 responseMsg, calls, thrown, ghostVars>>

\* a start keyword: the handler runs up to the await of the welcome sendSms
HandleStart(t) ==
  /\ pc[t] = "pending"
  /\ ~missingField(from[t], message[t])
  /\ isStartKeyword(message[t])
  /\ calls' = [calls EXCEPT ![t] =
       issue(@, Call("notify", "welcome", from[t], welcomeText(message[t]), ""))]
  /\ pc' = [pc EXCEPT ![t] = "welcome"]
  /\ UNCHANGED <<sessionStore, maxAttempts, from, message, attempt, firstQ, result,
                 responseMsg, thrown, http, ghostVars>>

\* any other text: the handler calls processAnswer, which runs to its end
HandleAnswer(t) ==
  /\ pc[t] = "pending"
  /\ ~missingField(from[t], message[t])
  /\ ~isStartKeyword(message[t])
  /\ LET r == processAnswer(sessionStore, from[t], trim(message[t]))
         s == from[t]
     IN /\ sessionStore' = r.store
        /\ result' = [result EXCEPT ![t] = r.result]
        /\ answerCount' = [answerCount EXCEPT ![s] =
             IF r.result.kind = "value" THEN @ + 1 ELSE @]
        /\ correctCount' = [correctCount EXCEPT ![s] =
             IF r.result.kind = "value" /\ r.result.correct THEN @ + 1 ELSE @]
        /\ lastAggregate' = [lastAggregate EXCEPT ![s] =
             IF r.result.kind = "value" /\ r.result.done
             THEN r.result.aggregateScore ELSE @]
  /\ pc' = [pc EXCEPT ![t] = "answered"]
  /\ UNCHANGED <<maxAttempts, from, message, attempt, firstQ, responseMsg, calls,
                 thrown, http>>

\* fail that still answers 200 {status: "ok"}
failRepliesOk(t, log, err) ==
  /\ calls' = [calls EXCEPT ![t] = log]
  /\ thrown' = [thrown EXCEPT ![t] = err]
  /\ http' = [http EXCEPT ![t] = 200]
  /\ pc' = [pc EXCEPT ![t] = "responded"]

\* the handler's promise rejects: Fastify answers 500
fail(t, log, err) ==
  /\ calls' = [calls EXCEPT ![t] = log]
  /\ thrown' = [thrown EXCEPT ![t] = err]
  /\ http' = [http EXCEPT ![t] = 500]
  /\ pc' = [pc EXCEPT ![t] = "responded"]

\* startQuiz is called: getRandomQuestions awaits the database
callStart(t, log) ==
  /\ calls' = [calls EXCEPT ![t] = issue(log, Call("start", "start", from[t], "", ""))]
  /\ pc' = [pc EXCEPT ![t] = "starting"]

\* the welcome sendSms comes back
WelcomeReturn(t) ==
  /\ pc[t] = "welcome"
  /\ \E r \in Responses :
       IF sendSmsOutcome(r) = "return"
       THEN IF planOf(message[t]) # ""
            THEN /\ calls' = [calls EXCEPT ![t] =
                      issue(settle(@, "ok", accepted("notify", r)),
                            Call("subscribe", "subscribe", from[t], "",
                                 planOf(message[t])))]
                 /\ attempt' = [attempt EXCEPT ![t] = 1]
                 /\ pc' = [pc EXCEPT ![t] = "subscribe"]
                 /\ UNCHANGED <<thrown, http>>
            ELSE /\ callStart(t, settle(calls[t], "ok", accepted("notify", r)))
                 /\ UNCHANGED <<attempt, thrown, http>>
       ELSE /\ fail(t, settle(calls[t], "failed", accepted("notify", r)), "sendSms")
            /\ UNCHANGED attempt
  /\ UNCHANGED <<sessionStore, maxAttempts, from, message, firstQ, result,
                 responseMsg, ghostVars>>

\* one attempt of subscribeUser comes back
SubscribeReturn(t) ==
  /\ pc[t] = "subscribe"
  /\ \E r \in Responses :
       LET o == attemptOutcome(r, attempt[t], maxAttempts) IN
       CASE o = "return" ->
              /\ calls' = [calls EXCEPT ![t] =
                   issue(settle(@, "ok", accepted("subscribe", r)),
                         Call("charge", "charge", from[t], "", planOf(message[t])))]
              /\ attempt' = [attempt EXCEPT ![t] = 1]
              /\ pc' = [pc EXCEPT ![t] = "charge"]
              /\ UNCHANGED <<thrown, http>>
         [] o = "sleep" ->
              /\ pc' = [pc EXCEPT ![t] = "subscribeSleep"]
              /\ UNCHANGED <<calls, attempt, thrown, http>>
         [] OTHER ->
              /\ fail(t, settle(calls[t], "failed", accepted("subscribe", r)), "subscribeUser")
              /\ UNCHANGED attempt
  /\ UNCHANGED <<sessionStore, maxAttempts, from, message, firstQ, result,
                 responseMsg, ghostVars>>

\* one attempt of chargeUser comes back
ChargeReturn(t) ==
  /\ pc[t] = "charge"
  /\ \E r \in Responses :
       LET o == chargeAttemptOutcome(r, attempt[t], maxAttempts) IN
       CASE o = "return" ->
              /\ callStart(t, settle(calls[t], "ok", accepted("charge", r)))
              /\ UNCHANGED <<attempt, thrown, http>>
         [] o = "sleep" ->
              /\ pc' = [pc EXCEPT ![t] = "chargeSleep"]
              /\ UNCHANGED <<calls, attempt, thrown, http>>
         [] OTHER ->
              /\ fail(t, settle(calls[t], "failed", accepted("charge", r)), "chargeUser")
              /\ UNCHANGED attempt
  /\ UNCHANGED <<sessionStore, maxAttempts, from, message, firstQ, result,
                 responseMsg, ghostVars>>

\* the backoff sleep ends: attempt++ and the next axios.post is issued
SleepDone(t) ==
  /\ pc[t] \in {"subscribeSleep", "chargeSleep"}
  /\ attempt' = [attempt EXCEPT ![t] = @ + 1]
  /\ pc' = [pc EXCEPT ![t] = IF pc[t] = "subscribeSleep" THEN "subscribe" ELSE "charge"]
  /\ UNCHANGED <<sessionStore, maxAttempts, from, message, firstQ, result,
                 responseMsg, calls, thrown, http, ghostVars>>

\* the database, its table holding one of sizes rows, answers
\* getRandomQuestions and startQuiz stores the session
StartReturnWith(t, sizes) ==
  /\ pc[t] = "starting"
  /\ \E n \in sizes :
       LET r == startQuiz(sessionStore, from[t], getRandomQuestions(DbRows(n))) IN
       /\ sessionStore' = r.store
       /\ firstQ' = [firstQ EXCEPT ![t] = r.firstQ]
  /\ calls' = [calls EXCEPT ![t] = settle(@, "ok", TRUE)]
  /\ answerCount' = [answerCount EXCEPT ![from[t]] = 0]
  /\ correctCount' = [correctCount EXCEPT ![from[t]] = 0]
  /\ pc' = [pc EXCEPT ![t] = "started"]
  /\ UNCHANGED <<maxAttempts, from, message, attempt, result, responseMsg, thrown,
                 http, lastAggregate>>

StartReturn(t) == StartReturnWith(t, 0..MaxRows)

\* the database query rejects: startQuiz throws before any session is set
StartFails(t) ==
  /\ pc[t] = "starting"
  /\ fail(t, settle(calls[t], "failed", FALSE), "db")
  /\ UNCHANGED <<sessionStore, maxAttempts, from, message, attempt, firstQ, result,
                 responseMsg, ghostVars>>

\* the reply sendSms is issued
sendReply(t, text) ==
  /\ responseMsg' = [responseMsg EXCEPT ![t] = text]
  /\ calls' = [calls EXCEPT ![t] = issue(@, Call("notify", "reply", from[t], text, ""))]
  /\ pc' = [pc EXCEPT ![t] = "reply"]
  /\ UNCHANGED <<thrown, http>>

\* the handler resumes after startQuiz: firstQ.text of undefined is a TypeError
StartContinue(t) ==
  /\ pc[t] = "started"
  /\ IF firstQ[t] = NoQuestion
     THEN /\ fail(t, calls[t], "TypeError")
          /\ UNCHANGED responseMsg
     ELSE sendReply(t, startReply(firstQ[t]))
  /\ UNCHANGED <<sessionStore, maxAttempts, from, message, attempt, firstQ, result,
                 ghostVars>>

\* the handler resumes after processAnswer
AnswerContinue(t) ==
  /\ pc[t] = "answered"
  /\ IF result[t].kind = "threw"
     THEN /\ fail(t, calls[t], "TypeError")
          /\ UNCHANGED responseMsg
     ELSE sendReply(t, answerReply(result[t]))
  /\ UNCHANGED <<sessionStore, maxAttempts, from, message, attempt, firstQ, result,
                 ghostVars>>

\* the reply sendSms comes back
ReplyReturn(t) ==
  /\ pc[t] = "reply"
  /\ \E r \in Responses :
       IF sendSmsOutcome(r) = "return"
       THEN /\ calls' = [calls EXCEPT ![t] = settle(@, "ok", accepted("notify", r))]
            /\ http' = [http EXCEPT ![t] = 200]
            /\ pc' = [pc EXCEPT ![t] = "responded"]
            /\ UNCHANGED thrown
       ELSE fail(t, settle(calls[t], "failed", accepted("notify", r)), "sendSms")
  /\ UNCHANGED <<sessionStore, maxAttempts, from, message, attempt, firstQ, result,
                 responseMsg, ghostVars>>

\* the request is over; the task may carry the next one
Recycle(t) ==
  /\ pc[t] = "responded"
  /\ pc' = [pc EXCEPT ![t] = "idle"]
  /\ from' = [from EXCEPT ![t] = ""]
  /\ message' = [message EXCEPT ![t] = <<>>]
  /\ attempt' = [attempt EXCEPT ![t] = 0]
  /\ firstQ' = [firstQ EXCEPT ![t] = NoQuestion]
  /\ result' = [result EXCEPT ![t] = NoResult]
  /\ responseMsg' = [responseMsg EXCEPT ![t] = ""]
  /\ calls' = [calls EXCEPT ![t] = <<>>]
  /\ thrown' = [thrown EXCEPT ![t] = ""]
  /\ http' = [http EXCEPT ![t] = 0]
  /\ UNCHANGED <<sessionStore, maxAttempts, ghostVars>>

Next ==
  \E t \in Tasks :
    \/ Arrive(t) /\ UNCHANGED aloneVars
    \/ Reject(t) /\ UNCHANGED aloneVars
    \/ HandleStart(t) /\ UNCHANGED aloneVars
    \/ HandleAnswer(t) /\ UNCHANGED aloneVars
    \/ WelcomeReturn(t) /\ UNCHANGED aloneVars
    \/ SubscribeReturn(t) /\ UNCHANGED aloneVars
    \/ ChargeReturn(t) /\ UNCHANGED aloneVars
    \/ SleepDone(t) /\ UNCHANGED aloneVars
    \/ StartReturn(t) /\ UNCHANGED aloneVars
    \/ StartFails(t) /\ UNCHANGED aloneVars
    \/ StartContinue(t) /\ UNCHANGED aloneVars
    \/ AnswerContinue(t) /\ UNCHANGED aloneVars
    \/ ReplyReturn(t) /\ UNCHANGED aloneVars
    \/ Recycle(t) /\ UNCHANGED aloneVars

Spec == Init /\ [][Next]_vars

\* ------------------------------------------- one subscriber, a full table
\* one subscriber writes to the service, one message at a time
DialogueTasks == {"d1"}

\* what the subscriber sends: the daily keyword, the letters, or nothing
DialogueTexts == {BTD, <<"a">>, <<"B">>, <<"c", " ">>, <<>>}

\* the questions table holds as many rows as the query takes, or more
FullTableSizes == QueryLimit..(QueryLimit + 1)

DialogueInit ==
  /\ InitDispatch
  /\ maxAttempts = retryMaxAttempts(Unset)
  /\ exec = ExecIdle
  /\ timer = TimerIdle
  /\ trx = TrxIdle

DialogueNext ==
  \E t \in DialogueTasks :
    \/ ArriveWith(t, Subscribers, DialogueTexts) /\ UNCHANGED aloneVars
    \/ StartReturnWith(t, FullTableSizes) /\ UNCHANGED aloneVars
    \/ Reject(t) /\ UNCHANGED aloneVars
    \/ HandleStart(t) /\ UNCHANGED aloneVars
    \/ HandleAnswer(t) /\ UNCHANGED aloneVars
    \/ WelcomeReturn(t) /\ UNCHANGED aloneVars
    \/ SubscribeReturn(t) /\ UNCHANGED aloneVars
    \/ ChargeReturn(t) /\ UNCHANGED aloneVars
    \/ SleepDone(t) /\ UNCHANGED aloneVars
    \/ StartFails(t) /\ UNCHANGED aloneVars
    \/ StartContinue(t) /\ UNCHANGED aloneVars
    \/ AnswerContinue(t) /\ UNCHANGED aloneVars
    \/ ReplyReturn(t) /\ UNCHANGED aloneVars
    \/ Recycle(t) /\ UNCHANGED aloneVars

DialogueSpec == DialogueInit /\ [][DialogueNext]_vars

\* ------------------------------------------------------- two subscribers
\* each of the two subscribers has one message in flight at a time
PairCaller(t) == IF t = "d1" THEN "2547000000" ELSE "2547000001"

\* what they send: the weekly keyword, which starts a quiz without subscribe
\* and charge, and two letters
PairTexts == {BTW, <<"a">>, <<"B">>}

PairNext ==
  \E t \in Tasks :
    \/ ArriveWith(t, {PairCaller(t)}, PairTexts) /\ UNCHANGED aloneVars
    \/ StartReturnWith(t, 0..MaxRows) /\ UNCHANGED aloneVars
    \/ HandleStart(t) /\ UNCHANGED aloneVars
    \/ HandleAnswer(t) /\ UNCHANGED aloneVars
    \/ WelcomeReturn(t) /\ UNCHANGED aloneVars
    \/ StartFails(t) /\ UNCHANGED aloneVars
    \/ StartContinue(t) /\ UNCHANGED aloneVars
    \/ AnswerContinue(t) /\ UNCHANGED aloneVars
    \/ ReplyReturn(t) /\ UNCHANGED aloneVars
    \/ Recycle(t) /\ UNCHANGED aloneVars

PairSpec == Init /\ [][PairNext]_vars

\* ------------------------------------------------ the test start endpoint
\* missingPhone that lets every body through
missingPhoneNever(phoneNumber) == FALSE

\* !phoneNumber
missingPhone(phoneNumber) == phoneNumber = ""

\* a POST /start request reaches the server; from holds its phoneNumber,
\* "" when the body has none
StartEndpointArrive(t) ==
  /\ pc[t] = "idle"
  /\ \E p \in Senders : from' = [from EXCEPT ![t] = p]
  /\ pc' = [pc EXCEPT ![t] = "startPending"]
  /\ UNCHANGED <<sessionStore, maxAttempts, message, attempt, firstQ, result,
                 responseMsg, calls, thrown, http, ghostVars>>

\* the handler answers 400 to a body without phoneNumber
StartEndpointReject(t) ==
  /\ pc[t] = "startPending"
  /\ missingPhone(from[t])
  /\ http' = [http EXCEPT ![t] = 400]
  /\ pc' = [pc EXCEPT ![t] = "responded"]
  /\ UNCHANGED <<sessionStore, maxAttempts, from, message, attempt, firstQ, result,
                 responseMsg, calls, thrown, ghostVars>>

\* the handler calls startQuiz, which awaits the database
StartEndpointCall(t) ==
  /\ pc[t] = "startPending"
  /\ ~missingPhone(from[t])
  /\ calls' = [calls EXCEPT ![t] = issue(@, Call("start", "start", from[t], "", ""))]
  /\ pc' = [pc EXCEPT ![t] = "startFetching"]
  /\ UNCHANGED <<sessionStore, maxAttempts, from, message, attempt, firstQ, result,
                 responseMsg, thrown, http, ghostVars>>

\* the database answers and startQuiz stores the session
StartEndpointReturn(t) ==
  /\ pc[t] = "startFetching"
  /\ \E n \in 0..MaxRows :
       LET r == startQuiz(sessionStore, from[t], getRandomQuestions(DbRows(n))) IN
       /\ sessionStore' = r.store
       /\ firstQ' = [firstQ EXCEPT ![t] = r.firstQ]
  /\ calls' = [calls EXCEPT ![t] = settle(@, "ok", TRUE)]
  /\ answerCount' = [answerCount EXCEPT ![from[t]] = 0]
  /\ correctCount' = [correctCount EXCEPT ![from[t]] = 0]
  /\ pc' = [pc EXCEPT ![t] = "startFetched"]
  /\ UNCHANGED <<maxAttempts, from, message, attempt, result, responseMsg, thrown,
                 http, lastAggregate>>

\* the database query rejects: the handler's promise rejects
StartEndpointFails(t) ==
  /\ pc[t] = "startFetching"
  /\ fail(t, settle(calls[t], "failed", FALSE), "db")
  /\ UNCHANGED <<sessionStore, maxAttempts, from, message, attempt, firstQ, result,
                 responseMsg, ghostVars>>

\* reply.send({ firstQuestion: firstQ }): status 200, whatever firstQ is
StartEndpointReply(t) ==
  /\ pc[t] = "startFetched"
  /\ http' = [http EXCEPT ![t] = 200]
  /\ pc' = [pc EXCEPT ![t] = "responded"]
  /\ UNCHANGED <<sessionStore, maxAttempts, from, message, attempt, firstQ, result,
                 responseMsg, calls, thrown, ghostVars>>

\* one client at a time, on either route
EndpointNext ==
  \E t \in DialogueTasks :
    \/ StartEndpointArrive(t) /\ UNCHANGED aloneVars
    \/ StartEndpointReject(t) /\ UNCHANGED aloneVars
    \/ StartEndpointCall(t) /\ UNCHANGED aloneVars
    \/ StartEndpointReturn(t) /\ UNCHANGED aloneVars
    \/ StartEndpointFails(t) /\ UNCHANGED aloneVars
    \/ StartEndpointReply(t) /\ UNCHANGED aloneVars
    \/ ArriveWith(t, Subscribers, Messages) /\ UNCHANGED aloneVars
    \/ StartReturnWith(t, 0..MaxRows) /\ UNCHANGED aloneVars
    \/ Reject(t) /\ UNCHANGED aloneVars
    \/ HandleStart(t) /\ UNCHANGED aloneVars
    \/ HandleAnswer(t) /\ UNCHANGED aloneVars
    \/ WelcomeReturn(t) /\ UNCHANGED aloneVars
    \/ SubscribeReturn(t) /\ UNCHANGED aloneVars
    \/ ChargeReturn(t) /\ UNCHANGED aloneVars
    \/ SleepDone(t) /\ UNCHANGED aloneVars
    \/ StartFails(t) /\ UNCHANGED aloneVars
    \/ StartContinue(t) /\ UNCHANGED aloneVars
    \/ AnswerContinue(t) /\ UNCHANGED aloneVars
    \/ ReplyReturn(t) /\ UNCHANGED aloneVars
    \/ Recycle(t) /\ UNCHANGED aloneVars

EndpointSpec == Init /\ [][EndpointNext]_vars

\* ------------------------------------- one subscriber, every start keyword
\* one subscriber sends any of the texts, one message at a time, so a
\* session found in the store while a request is served was there when the
\* request arrived
RestartNext ==
  \E t \in DialogueTasks :
    \/ ArriveWith(t, Subscribers, Messages) /\ UNCHANGED aloneVars
    \/ StartReturnWith(t, 0..MaxRows) /\ UNCHANGED aloneVars
    \/ Reject(t) /\ UNCHANGED aloneVars
    \/ HandleStart(t) /\ UNCHANGED aloneVars
    \/ HandleAnswer(t) /\ UNCHANGED aloneVars
    \/ WelcomeReturn(t) /\ UNCHANGED aloneVars
    \/ SubscribeReturn(t) /\ UNCHANGED aloneVars
    \/ ChargeReturn(t) /\ UNCHANGED aloneVars
    \/ SleepDone(t) /\ UNCHANGED aloneVars
    \/ StartFails(t) /\ UNCHANGED aloneVars
    \/ StartContinue(t) /\ UNCHANGED aloneVars
    \/ AnswerContinue(t) /\ UNCHANGED aloneVars
    \/ ReplyReturn(t) /\ UNCHANGED aloneVars
    \/ Recycle(t) /\ UNCHANGED aloneVars

RestartSpec == Init /\ [][RestartNext]_vars

\* ------------------------------------------- one gateway call run on its own

ExecKinds == {"notify", "subscribe", "charge"}

\* the wording each function puts in its errors
failurePrefix(kind) ==
  IF kind = "subscribe" THEN "Failed to subscribe user after"
  ELSE "Failed to charge user after"

unexpectedError(kind) ==
  IF kind = "subscribe" THEN "Unexpected error while subscribing user"
  ELSE "Unexpected error while charging user"

nonSuccessMessage(kind) ==
  IF kind = "subscribe" THEN "Subscription request did not succeed"
  ELSE "Charge request did not succeed"

\* error.message of the rejection axios produces; the gateway's bodies carry
\* no message of their own here
axiosMessage(r) ==
  IF r.status = 0 THEN "Network Error"
  ELSE "Request failed with status code " \o ToString(r.status)

\* the message the catch block of the retry loop reports
caughtMessage(kind, r) ==
  IF axiosResolves(r) THEN nonSuccessMessage(kind) ELSE axiosMessage(r)

\* an Error whose message carries no attempt count
plainError(text) ==
  [text |-> text, attempt |-> 0, unit |-> "", message |-> ""]

\* the message counting the attempt that was never made
retryErrorOffByOne(kind, att, msg) ==
  [text |-> failurePrefix(kind), attempt |-> att + 1, unit |-> "attempts",
   message |-> msg]

\* the message of the catch block:
\* `${prefix} ${attempt} ${attempt === 1 ? 'attempt' : 'attempts'}: ${message}`
retryError(kind, att, msg) ==
  [text |-> failurePrefix(kind), attempt |-> att,
   unit |-> IF att = 1 THEN "attempt" ELSE "attempts", message |-> msg]

\* what one answer of the gateway does to the running function
execOutcome(kind, r, att, maxAtt) ==
  IF kind = "notify" THEN sendSmsOutcome(r)
  ELSE IF kind = "subscribe" THEN attemptOutcome(r, att, maxAtt)
  ELSE chargeAttemptOutcome(r, att, maxAtt)

\* a loop that stops one pass early
loopContinuesShort(att, maxAtt) == att < maxAtt

\* the for statement's test, taken before every pass
loopContinues(att, maxAtt) == att <= maxAtt

\* sendSms, subscribeUser or chargeUser run against the answers h[att], h[att+1],
\* ... of the gateway: how the call ends and the posts it made; "posting" when
\* the call is still waiting for an answer h does not hold
RECURSIVE executorRunFrom(_, _, _, _)
executorRunFrom(kind, h, att, maxAtt) ==
  IF kind # "notify" /\ ~loopContinues(att, maxAtt)
  THEN [phase |-> "thrown", attempts |-> att - 1]
  ELSE IF att > Len(h)
  THEN [phase |-> "posting", attempts |-> att]
  ELSE LET o == execOutcome(kind, h[att], att, maxAtt)
       IN  IF o = "return" THEN [phase |-> "returned", attempts |-> att]
           ELSE IF o = "throw" THEN [phase |-> "thrown", attempts |-> att]
           ELSE executorRunFrom(kind, h, att + 1, maxAtt)

executorRun(kind, h, maxAtt) == executorRunFrom(kind, h, 1, maxAtt)

\* the characters of customAlphabet('1234567890abcdefghijklmnopqrstuvwxyz')
\* the suffixes are drawn from
Alphabet == {"1", "a"}

NanoidSize == 5

\* the strings nanoid(size) may return
RECURSIVE nanoid(_)
nanoid(size) ==
  IF size = 0 THEN {""}
  ELSE {c \o rest : c \in Alphabet, rest \in nanoid(size - 1)}

\* `brain-teaser_${nanoid(5)}${Date.now()}`
generateTrxId(suffix, now) == "brain-teaser_" \o suffix \o ToString(now)

\* two of the strings nanoid(5) may return, for the calls whose retries are
\* followed
ExecSuffixes == {"11111", "a1a1a"}

ExecInit ==
  /\ InitDispatch
  /\ maxAttempts \in {retryMaxAttempts(e) : e \in 0..MaxEnvAttempts}
  /\ exec = ExecIdle
  /\ timer = TimerIdle
  /\ trx = TrxIdle

\* a caller invokes sendSms, subscribeUser or chargeUser; the retry loops
\* test attempt <= maxAttempts before the first post
ExecCall(kind) ==
  /\ exec.phase = "idle"
  /\ \E suffix \in ExecSuffixes :
       LET trxid == generateTrxId(suffix, trx.now) IN
       IF kind = "notify" \/ loopContinues(1, maxAttempts)
       THEN exec' = [ExecIdle EXCEPT !.kind = kind, !.phase = "posting", !.attempt = 1,
                                     !.trxid = trxid, !.posted = <<trxid>>]
       ELSE exec' = [ExecIdle EXCEPT !.kind = kind, !.phase = "thrown", !.trxid = trxid,
                                     !.error = plainError(unexpectedError(kind))]
  /\ UNCHANGED <<maxAttempts, dispatchVars, timer, trx>>

\* axios.post settles
ExecPostReturn ==
  /\ exec.phase = "posting"
  /\ \E r \in Responses :
       LET o == execOutcome(exec.kind, r, exec.attempt, maxAttempts)
           seen == Append(exec.responses, r)
       IN  exec' =
             IF o = "return"
             THEN [exec EXCEPT !.phase = "returned", !.responses = seen]
             ELSE IF o = "sleep"
             THEN [exec EXCEPT !.phase = "sleeping", !.responses = seen,
                               !.sleeps = Append(@, exec.attempt)]
             ELSE [exec EXCEPT !.phase = "thrown", !.responses = seen,
                     !.error = IF exec.kind = "notify"
                               THEN plainError(axiosMessage(r))
                               ELSE retryError(exec.kind, exec.attempt,
                                               caughtMessage(exec.kind, r))]
  /\ UNCHANGED <<maxAttempts, dispatchVars, timer, trx>>

\* ExecSleepDone that builds the payload anew for the next post
ExecSleepDoneRebuilds ==
  /\ exec.phase = "sleeping"
  /\ \E suffix \in ExecSuffixes :
       LET trxid == generateTrxId(suffix, trx.now) IN
       IF loopContinues(exec.attempt + 1, maxAttempts)
       THEN exec' = [exec EXCEPT !.phase = "posting", !.attempt = @ + 1,
                                 !.trxid = trxid, !.posted = Append(@, trxid)]
       ELSE exec' = [exec EXCEPT !.phase = "thrown", !.attempt = @ + 1,
                                 !.error = plainError(unexpectedError(exec.kind))]
  /\ UNCHANGED <<maxAttempts, dispatchVars, timer, trx>>

\* the sleep ends: continue, attempt++, the loop test, and the next post of
\* the same payload
ExecSleepDone ==
  /\ exec.phase = "sleeping"
  /\ IF loopContinues(exec.attempt + 1, maxAttempts)
     THEN exec' = [exec EXCEPT !.phase = "posting", !.attempt = @ + 1,
                               !.posted = Append(@, exec.trxid)]
     ELSE exec' = [exec EXCEPT !.phase = "thrown", !.attempt = @ + 1,
                               !.error = plainError(unexpectedError(exec.kind))]
  /\ UNCHANGED <<maxAttempts, dispatchVars, timer, trx>>

\* the caller has the result; the next call may start
ExecReset ==
  /\ exec.phase \in {"returned", "thrown"}
  /\ exec' = ExecIdle
  /\ UNCHANGED <<maxAttempts, dispatchVars, timer, trx>>

ExecNext ==
  \/ \E kind \in ExecKinds : ExecCall(kind)
  \/ ExecPostReturn
  \/ ExecSleepDone
  \/ ExecReset

ExecSpec == ExecInit /\ [][ExecNext]_vars

\* every post is answered and every timer fires
ExecFairSpec ==
  /\ ExecSpec
  /\ WF_vars(ExecPostReturn)
  /\ WF_vars(ExecSleepDone)

\* ------------------------------------------------- the backoff delays alone
\* the settings tried for PISI_RETRY_BASE_DELAY_MS and PISI_RETRY_MAX_DELAY_MS
EnvBaseDelays == {Unset, 1, 300, 6000}
EnvMaxDelays == {Unset, 100, 1000}

DelayInit ==
  /\ InitDispatch
  /\ maxAttempts \in {retryMaxAttempts(e) : e \in 0..MaxEnvAttempts}
  /\ exec = ExecIdle
  /\ timer \in {[TimerIdle EXCEPT !.baseDelayMs = retryBaseDelayMs(b),
                                   !.maxDelayMs = retryMaxDelayMs(m)] :
                  b \in EnvBaseDelays, m \in EnvMaxDelays}
  /\ trx = TrxIdle

\* a failed attempt with attempts left: sleep(computeDelay(attempt))
DelaySleep ==
  /\ timer.attempt + 1 < maxAttempts
  /\ \E k \in 0..(RandomSteps - 1) :
       timer' = [timer EXCEPT
                   !.attempt = @ + 1,
                   !.jitter = jitterOf(k),
                   !.ms = computeDelay(timer.attempt + 1, timer.baseDelayMs,
                                       timer.maxDelayMs, jitterOf(k))]
  /\ UNCHANGED <<maxAttempts, dispatchVars, exec, trx>>

\* the call ends; the next call starts at attempt 1
DelayRestart ==
  /\ timer.attempt > 0
  /\ timer' = [timer EXCEPT !.attempt = 0, !.jitter = 0, !.ms = 0]
  /\ UNCHANGED <<maxAttempts, dispatchVars, exec, trx>>

DelayNext == DelaySleep \/ DelayRestart

DelaySpec == DelayInit /\ [][DelayNext]_vars

\* --------------------------------------------- the transaction ids alone
TrxInit ==
  /\ InitDispatch
  /\ maxAttempts = retryMaxAttempts(Unset)
  /\ exec = ExecIdle
  /\ timer = TimerIdle
  /\ trx = TrxIdle

\* a millisecond passes
ClockTick ==
  /\ trx.now < MaxClock
  /\ trx' = [trx EXCEPT !.now = @ + 1]
  /\ UNCHANGED <<maxAttempts, dispatchVars, exec, timer>>

\* sendSms, subscribeUser or chargeUser builds its payload
BuildPayload(kind) ==
  /\ Len(trx.issued) < MaxRequests
  /\ \E suffix \in nanoid(NanoidSize) :
       trx' = [trx EXCEPT !.issued =
                 Append(@, [kind |-> kind, trxid |-> generateTrxId(suffix, trx.now)])]
  /\ UNCHANGED <<maxAttempts, dispatchVars, exec, timer>>

TrxNext ==
  \/ ClockTick
  \/ \E kind \in ExecKinds : BuildPayload(kind)

TrxSpec == TrxInit /\ [][TrxNext]_vars

\* ---------------------------------------------------------------- claims
\* the step in which dispatch t runs processAnswer
AnswerStep(t) == pc[t] = "pending" /\ pc'[t] = "answered"

\* the step in which startQuiz of dispatch t stores its session
StartStep(t) == pc[t] = "starting" /\ pc'[t] = "started"

\* the request of dispatch t carries from and message
validRequest(t) == from[t] # "" /\ message[t] # <<>>

\* C1: counting the answers accepted since the subscriber's last start, the
\* answer that brings the count to the number of questions of the session,
\* and only that one, reports done and removes the session; an answer for a
\* subscriber without a session gets the NoActiveSession error, and only a
\* start puts a session back.
C1_NthAnswerCompletes ==
  [][/\ \A t \in Tasks :
          AnswerStep(t) =>
            LET s == from[t] IN
            IF hasSession(sessionStore, s)
            THEN result'[t].kind = "value" =>
                   /\ result'[t].done <=>
                        (answerCount'[s] = Len(sessionStore[s].questions))
                   /\ result'[t].done <=> ~hasSession(sessionStore', s)
            ELSE /\ result'[t].kind = "error"
                 /\ result'[t].error = NoActiveSessionMsg
     /\ \A s \in Subscribers :
          (~hasSession(sessionStore, s) /\ hasSession(sessionStore', s)) =>
            \E t \in Tasks : StartStep(t) /\ from[t] = s]_vars

\* C1 witness: one dispatch completed a two-question quiz with its second
\* answer and another dispatch of the same subscriber got the error
C1_Witness ==
  \E t1, t2 \in Tasks :
    /\ t1 # t2 /\ from[t1] = from[t2]
    /\ result[t1].kind = "value" /\ result[t1].done
    /\ Len(result[t1].session.questions) = 2
    /\ answerCount[from[t1]] = 2
    /\ ~hasSession(sessionStore, from[t1])
    /\ pc[t2] = "answered" /\ result[t2].kind = "error"

\* C2: every accepted answer leaves a session whose index is the number of
\* answers accepted since the start and whose score is the number of matching
\* ones, whichever dispatches are in flight: no update is lost.
C2_NoLostUpdate ==
  [][\A t \in Tasks :
       (AnswerStep(t) /\ result'[t].kind = "value") =>
         LET s == from[t]
             after == result'[t].session
         IN /\ after.currentQuestionIndex = answerCount'[s]
            /\ after.currentQuestionIndex = sessionStore[s].currentQuestionIndex + 1
            /\ after.currentScore = correctCount'[s]
            /\ ~result'[t].done => sessionStore'[s] = after]_vars

\* C2 witness: two dispatches of one subscriber are in flight together, both
\* answers were accepted, and the index went to 1 and then to 2
C2_Witness ==
  \E t1, t2 \in Tasks :
    /\ t1 # t2 /\ from[t1] = from[t2]
    /\ pc[t1] \in {"answered", "reply"} /\ pc[t2] \in {"answered", "reply"}
    /\ result[t1].kind = "value" /\ result[t2].kind = "value"
    /\ result[t1].session.currentQuestionIndex = 1
    /\ result[t2].session.currentQuestionIndex = 2
    /\ answerCount[from[t1]] = 2

\* C3: the session startQuiz stores has index 0, score 0, is not completed
\* and holds exactly QueryLimit questions.
C3_StartProducesFullSession ==
  [][\A t \in Tasks :
       StartStep(t) =>
         LET session == sessionStore'[from[t]] IN
         /\ session.currentQuestionIndex = 0
         /\ session.currentScore = 0
         /\ ~session.isCompleted
         /\ Len(session.questions) = QueryLimit]_vars

\* C4: startQuiz never returns having stored a session of fewer than
\* QueryLimit questions, and no reply of a start dispatch is issued while the
\* subscriber's session is shorter than that.
C4_FailFastOnShortSupply ==
  [][\A t \in Tasks :
       /\ StartStep(t) => Len(sessionStore'[from[t]].questions) >= QueryLimit
       /\ (pc[t] = "started" /\ pc'[t] = "reply" /\ hasSession(sessionStore, from[t]))
            => Len(sessionStore[from[t]].questions) >= QueryLimit]_vars

\* a session keeps its index within its questions and is completed exactly
\* at the end
sessionWellFormed(session) ==
  /\ 0 <= session.currentQuestionIndex
  /\ session.currentQuestionIndex <= Len(session.questions)
  /\ session.isCompleted <=> (session.currentQuestionIndex = Len(session.questions))

\* C5: every session in the store and every working copy a processAnswer
\* call leaves satisfies 0 <= index <= len and completed <=> index = len.
C5_SessionInvariant ==
  /\ \A s \in DOMAIN sessionStore : sessionWellFormed(sessionStore[s])
  /\ \A t \in Tasks :
       result[t].kind \in {"value", "threw"} => sessionWellFormed(result[t].session)

\* C6: the aggregate a completing answer reports is the number of matching
\* answers of that session, and until completion the aggregate stays at the 0
\* that start set.
C6_AggregateIsSessionScore ==
  [][\A t \in Tasks :
       (AnswerStep(t) /\ result'[t].kind = "value") =>
         IF result'[t].done
         THEN /\ result'[t].aggregateScore = correctCount'[from[t]]
              /\ result'[t].score = correctCount'[from[t]]
         ELSE /\ result'[t].aggregateScore = 0
              /\ sessionStore'[from[t]].aggregateScore = 0]_vars

\* C6 witness: a completion that reports one matching answer or more
C6_Witness ==
  \E t \in Tasks :
    /\ result[t].kind = "value" /\ result[t].done
    /\ result[t].aggregateScore >= 1
    /\ result[t].aggregateScore = correctCount[from[t]]
    /\ answerCount[from[t]] = 2

\* C7: the aggregate reported at a subscriber's completions never goes down.
C7_AggregateNeverDecreases ==
  [][\A s \in Subscribers : lastAggregate'[s] >= lastAggregate[s]]_vars

\* C8: an answer for a subscriber without an active session returns the
\* error as a value and leaves the store alone, and the handler then sends
\* that error text, unchanged, as the reply.
C8_NoActiveSessionIsAReply ==
  [][\A t \in Tasks :
       /\ (AnswerStep(t)
             /\ (~hasSession(sessionStore, from[t])
                   \/ sessionStore[from[t]].isCompleted)) =>
            /\ result'[t].kind = "error"
            /\ result'[t].error = NoActiveSessionMsg
            /\ sessionStore' = sessionStore
            /\ thrown'[t] = "" /\ http'[t] = 0
       /\ (pc[t] = "answered" /\ result[t].kind = "error" /\ pc'[t] # "answered") =>
            /\ pc'[t] = "reply"
            /\ responseMsg'[t] = result[t].error
            /\ calls'[t] = <<Call("notify", "reply", from[t], result[t].error, "")>>
            /\ sessionStore' = sessionStore]_vars

\* C8 witness: the error text is on its way to the subscriber
C8_Witness ==
  \E t \in Tasks :
    /\ pc[t] = "reply" /\ result[t].kind = "error"
    /\ responseMsg[t] = NoActiveSessionMsg
    /\ calls[t][1].text = NoActiveSessionMsg /\ calls[t][1].to = from[t]

\* the place of a call in the order of a start dispatch
Rank(purpose) ==
  CASE purpose = "welcome" -> 1
    [] purpose = "subscribe" -> 2
    [] purpose = "charge" -> 3
    [] purpose = "start" -> 4
    [] OTHER -> 5

\* C9: in a start dispatch the calls are issued one at a time in the order
\* welcome notify, subscribe, charge, start, reply notify: every call but the
\* last has returned and was taken by the gateway, the welcome notify comes
\* first, a charge directly follows the subscribe, and the reply follows start.
C9_StartCallsInOrder ==
  \A t \in Tasks :
    isStartKeyword(message[t]) =>
      /\ \A i \in 1..Len(calls[t]) :
           /\ i < Len(calls[t]) =>
                /\ calls[t][i].state = "ok" /\ calls[t][i].delivered
                /\ Rank(calls[t][i].purpose) < Rank(calls[t][i + 1].purpose)
           /\ i = 1 => calls[t][i].purpose = "welcome"
           /\ calls[t][i].purpose = "subscribe" => calls[t][i - 1].purpose = "welcome"
           /\ calls[t][i].purpose = "charge" => calls[t][i - 1].purpose = "subscribe"
           /\ calls[t][i].purpose = "start" =>
                calls[t][i - 1].purpose \in {"welcome", "charge"}
           /\ calls[t][i].purpose = "reply" => calls[t][i - 1].purpose = "start"
      /\ (validRequest(t) /\ pc[t] \notin {"idle", "pending"}) => Len(calls[t]) >= 1

\* C9 witness: a BTD dispatch has issued all five calls
C9_Witness ==
  \E t \in Tasks :
    /\ keywordOf(message[t]) = BTD
    /\ Len(calls[t]) = 5
    /\ [i \in 1..5 |-> calls[t][i].purpose]
         = <<"welcome", "subscribe", "charge", "start", "reply">>

\* the calls of dispatch t that send the reply
replyCalls(t) == {i \in 1..Len(calls[t]) : calls[t][i].purpose = "reply"}

\* no call of dispatch t has failed: no notify, subscribe or charge, and not
\* the fetch of the questions either
noCallFailed(t) ==
  \A i \in 1..Len(calls[t]) : calls[t][i].state # "failed"

\* the last call of dispatch t is the one reply notify, it carries the
\* composed text to the sender and the gateway took it
oneFinalReply(t) ==
  /\ Cardinality(replyCalls(t)) = 1
  /\ LET last == calls[t][Len(calls[t])] IN
       /\ last.purpose = "reply" /\ last.kind = "notify"
       /\ last.to = from[t]
       /\ last.text = responseMsg[t] /\ last.text # ""
       /\ last.state = "ok" /\ last.delivered

failedCall(c) == c.state = "failed" \/ (c.state = "ok" /\ ~c.delivered)

\* C11: a welcome notify, subscribe or charge that fails is the last call of
\* its dispatch: the dispatch has ended with that error and status 500, no
\* start and no reply follow it, no reply text was composed, the failing step
\* leaves the session store as it was, and an ended dispatch issues nothing.
C11_FailedCallAbortsDispatch ==
  [][\A t \in Tasks :
       /\ \A i \in 1..Len(calls'[t]) :
            (failedCall(calls'[t][i])
               /\ calls'[t][i].purpose \in {"welcome", "subscribe", "charge"}) =>
              /\ i = Len(calls'[t])
              /\ pc'[t] = "responded"
              /\ thrown'[t] \in {"sendSms", "subscribeUser", "chargeUser"}
              /\ responseMsg'[t] = "" /\ http'[t] = 500
       /\ (pc[t] \in {"welcome", "subscribe", "charge"} /\ pc'[t] = "responded") =>
            sessionStore' = sessionStore
       /\ pc[t] = "responded" => calls'[t] \in {calls[t], <<>>}]_vars

\* C11 witness: a BTD dispatch whose charge failed after the welcome and the
\* subscribe went through; the subscriber has no session
C11_Witness ==
  \E t \in Tasks :
    /\ pc[t] = "responded" /\ thrown[t] = "chargeUser"
    /\ Len(calls[t]) = 3
    /\ calls[t][3].purpose = "charge" /\ calls[t][3].state = "failed"
    /\ ~hasSession(sessionStore, from[t])

\* C12 as stated: every valid request is answered 200 {status: "ok"}.
C12_AlwaysOk ==
  \A t \in Tasks : (pc[t] = "responded" /\ validRequest(t)) => http[t] = 200

\* C12 amended: a valid request is answered 200 when the handler ran to its
\* end, the final reply send included; when anything threw, the handler's
\* promise is rejected and the answer is 500.
C12_OkUnlessThrown ==
  \A t \in Tasks :
    (pc[t] = "responded" /\ validRequest(t)) =>
      /\ thrown[t] = "" =>
           /\ http[t] = 200
           /\ calls[t][Len(calls[t])].purpose = "reply"
           /\ calls[t][Len(calls[t])].state = "ok"
      /\ thrown[t] # "" => http[t] = 500

\* C12 witness: the final reply send threw and the request was answered 500
C12_Witness ==
  \E t \in Tasks :
    /\ pc[t] = "responded" /\ validRequest(t)
    /\ thrown[t] = "sendSms" /\ http[t] = 500
    /\ calls[t][Len(calls[t])].purpose = "reply"
    /\ calls[t][Len(calls[t])].state = "failed"

\* C13: a request without from or without message is answered 400 in the
\* step that handles it; that step issues no call and leaves the session
\* store and the subscribers' counters as they were.
C13_MissingFieldRejected ==
  [][\A t \in Tasks :
       (pc[t] = "pending" /\ ~validRequest(t) /\ pc'[t] # "pending") =>
         /\ pc'[t] = "responded" /\ http'[t] = 400
         /\ calls' = calls /\ calls[t] = <<>>
         /\ sessionStore' = sessionStore
         /\ UNCHANGED ghostVars]_vars

\* C13 witness: a start keyword without a sender was answered 400
C13_Witness ==
  \E t \in Tasks :
    /\ pc[t] = "responded" /\ http[t] = 400
    /\ from[t] = "" /\ isStartKeyword(message[t])
    /\ calls[t] = <<>>


\* --------------------------------------------------- claims on the retry loop

\* the functions that retry
retrying == exec.kind \in {"subscribe", "charge"}

\* an answer the retry loop may try again after
retryableFailure(r) ==
  \/ r.status = 0
  \/ r.status \in 500..599
  \/ r.status \in {408, 429}
  \/ (r.status \in 200..299 /\ ~r.success)

\* a 4xx that is neither 408 nor 429
terminalFailure(r) == r.status \in 400..499 /\ r.status \notin {408, 429}

successAnswer(r) == r.status \in 200..299 /\ r.success

allRetryable(h) == \A i \in 1..Len(h) : retryableFailure(h[i])

\* C14: while the gateway has answered nothing but retryable failures,
\* subscribeUser / chargeUser has not returned and has not given up before
\* attempt maxAttempts; when it throws it has made exactly maxAttempts attempts
\* and its error reports maxAttempts attempts.
C14_RetriesUntilMaxAttempts ==
  (retrying /\ allRetryable(exec.responses)) =>
    /\ exec.phase # "returned"
    /\ Len(exec.responses) <= maxAttempts
    /\ exec.phase = "sleeping" => Len(exec.responses) < maxAttempts
    /\ exec.phase = "thrown" =>
         /\ Len(exec.responses) = maxAttempts
         /\ exec.error.text = failurePrefix(exec.kind)
         /\ exec.error.attempt = maxAttempts

C14_Witness ==
  /\ exec.kind = "subscribe" /\ exec.phase = "thrown"
  /\ maxAttempts = 5 /\ Len(exec.responses) = 5
  /\ allRetryable(exec.responses)
  /\ exec.responses[5].status = 200
  /\ exec.error.attempt = 5 /\ exec.error.unit = "attempts"

\* C15: a terminal 4xx answered at attempt n ends subscribeUser / chargeUser
\* at attempt n: it is the last answer the call ever receives, the call has
\* thrown reporting n attempts, and no sleep followed it; at n = 1 the error
\* reports one attempt and no sleep happened at all.
C15_TerminalFailureEndsAtOnce ==
  retrying =>
    \A n \in 1..Len(exec.responses) :
      terminalFailure(exec.responses[n]) =>
        /\ n = Len(exec.responses)
        /\ exec.phase = "thrown"
        /\ exec.attempt = n
        /\ exec.error.attempt = n
        /\ exec.sleeps = [i \in 1..(n - 1) |-> i]
        /\ n = 1 => (exec.sleeps = <<>> /\ exec.error.unit = "attempt")

C15_Witness ==
  /\ exec.kind = "charge" /\ exec.phase = "thrown"
  /\ Len(exec.responses) = 1 /\ exec.responses[1].status = 404
  /\ exec.error.attempt = 1 /\ exec.sleeps = <<>>

\* C16: subscribeUser / chargeUser returns only on an answer that carries
\* success, received at attempt k <= maxAttempts after k - 1 retryable
\* failures and k - 1 sleeps; an answer carrying success always makes the
\* call return at the attempt that received it, and a sleep is always
\* followed by the next attempt.
C16_SuccessAfterKAttempts ==
  [][retrying' =>
       /\ exec'.phase = "returned" =>
            LET k == Len(exec'.responses)
            IN  /\ k = exec'.attempt /\ k >= 1 /\ k <= maxAttempts
                /\ successAnswer(exec'.responses[k])
                /\ allRetryable(SubSeq(exec'.responses, 1, k - 1))
                /\ exec'.sleeps = [i \in 1..(k - 1) |-> i]
       /\ (exec.phase = "posting" /\ exec' # exec
             /\ successAnswer(exec'.responses[Len(exec'.responses)])) =>
            (exec'.phase = "returned" /\ exec'.attempt = exec.attempt)
       /\ (exec.phase = "sleeping" /\ exec' # exec) =>
            (exec'.phase = "posting" /\ exec'.attempt = exec.attempt + 1)]_vars

C16_Witness ==
  /\ exec.kind = "subscribe" /\ exec.phase = "returned"
  /\ maxAttempts = 3 /\ exec.attempt = 3 /\ Len(exec.responses) = 3
  /\ exec.responses[1].status = 503 /\ exec.responses[2].status = 200
  /\ ~exec.responses[2].success /\ exec.responses[3].success

ended == exec.phase \in {"returned", "thrown"}

\* how the call that ran ended, and the posts it made
execResult == [phase |-> exec.phase, attempts |-> Len(exec.responses)]

\* C17: whenever sendSms has ended, subscribeUser and chargeUser run
\* against the same answers of the gateway make the same number of attempts
\* and end the same way (returned or thrown).
C17_NotifySharesExecutor ==
  (exec.kind = "notify" /\ ended) =>
    \A kind \in {"subscribe", "charge"} :
      executorRun(kind, exec.responses, maxAttempts) = execResult

\* C18: an answer with a 2xx status whose body does not carry success never
\* makes subscribeUser / chargeUser return: received at attempt n < maxAttempts
\* it is followed by the sleep of attempt n and then attempt n + 1, received
\* at attempt maxAttempts it makes the call throw, reporting maxAttempts
\* attempts.
C18_NonSuccessBodyIsAFailure ==
  [][(retrying /\ exec.phase = "posting" /\ exec' # exec
        /\ LET r == exec'.responses[Len(exec'.responses)]
           IN  r.status \in 200..299 /\ ~r.success) =>
       IF exec.attempt < maxAttempts
       THEN /\ exec'.phase = "sleeping"
            /\ exec'.sleeps = Append(exec.sleeps, exec.attempt)
            /\ exec'.attempt = exec.attempt
       ELSE /\ exec'.phase = "thrown"
            /\ exec'.error.attempt = maxAttempts
            /\ exec'.error.message = nonSuccessMessage(exec.kind)
            /\ exec'.sleeps = exec.sleeps]_vars

C18_Witness ==
  /\ exec.kind = "charge" /\ exec.phase = "thrown" /\ maxAttempts = 2
  /\ Len(exec.responses) = 2
  /\ \A i \in 1..2 : exec.responses[i] = [status |-> 200, success |-> FALSE]
  /\ exec.sleeps = <<1>> /\ exec.error.attempt = 2

\* the statuses a rejected request can carry; 0 stands for none
ErrorStatuses == {0} \cup 400..599

\* C19: the retry tests of subscribeUser and chargeUser hold for a
\* rejection with no status, a 5xx, 429 and 408 and fail for every other 4xx;
\* a rejection of the first kind received at attempt n < maxAttempts is
\* followed by a sleep and attempt n + 1, one of the second kind makes the
\* call throw in the same pass with no sleep and no further attempt.
C19_FailureClassification ==
  /\ \A status \in ErrorStatuses :
       LET retryable == status = 0 \/ status \in 500..599 \/ status \in {408, 429}
       IN  /\ isRetryable(status) <=> retryable
           /\ chargeIsRetryable(status) <=> retryable
  /\ retrying =>
       \A n \in 1..Len(exec.responses) :
         LET r == exec.responses[n]
         IN  /\ (r.status = 0 \/ r.status \in 500..599 \/ r.status \in {408, 429}) =>
                  IF n < maxAttempts
                  THEN n <= Len(exec.sleeps) /\ exec.sleeps[n] = n /\ exec.attempt >= n
                  ELSE exec.phase = "thrown" /\ exec.error.attempt = n
             /\ (r.status \in 400..499 /\ r.status \notin {408, 429}) =>
                  /\ exec.phase = "thrown" /\ n = Len(exec.responses)
                  /\ Len(exec.sleeps) = n - 1 /\ exec.error.attempt = n

C19_Witness ==
  /\ exec.kind = "charge" /\ exec.phase = "thrown" /\ maxAttempts = 5
  /\ Len(exec.responses) = 4
  /\ exec.responses[1].status = 408 /\ exec.responses[2].status = 429
  /\ exec.responses[3].status = 0 /\ exec.responses[4].status = 400
  /\ exec.sleeps = <<1, 2, 3>> /\ exec.error.attempt = 4

\* C20: subscribeUser / chargeUser makes at most maxAttempts attempts; the
\* sleep computed for attempt n happens after the answer of attempt n exactly
\* when that answer is a retryable failure and n < maxAttempts, the sleeps are
\* those of attempts 1, 2, ... in order, and attempt n + 1 follows only such a
\* sleep; the call ends returned on a success or thrown by the catch block on
\* a terminal failure or on the failure of attempt maxAttempts; and, every
\* post being answered, every call that started ends returned or thrown.
C20_RetryStateMachine ==
  /\ [](retrying =>
        LET n == Len(exec.responses)
            k == Len(exec.sleeps)
        IN  /\ n <= maxAttempts /\ exec.attempt <= maxAttempts
            /\ exec.sleeps = [i \in 1..k |-> i]
            /\ \A i \in 1..n :
                 (i <= k) <=> (retryableFailure(exec.responses[i]) /\ i < maxAttempts)
            /\ exec.phase = "posting" => (exec.attempt = n + 1 /\ k = n)
            /\ exec.phase = "sleeping" => (exec.attempt = n /\ k = n)
            /\ exec.phase = "returned" =>
                 (exec.attempt = n /\ k = n - 1 /\ successAnswer(exec.responses[n]))
            /\ exec.phase = "thrown" =>
                 /\ exec.attempt = n /\ k = n - 1
                 /\ exec.error.text = failurePrefix(exec.kind)
                 /\ exec.error.attempt = n
                 /\ \/ terminalFailure(exec.responses[n])
                    \/ (retryableFailure(exec.responses[n]) /\ n = maxAttempts))
  /\ (retrying /\ ~ended) ~> ended

C20_Witness ==
  /\ exec.kind = "subscribe" /\ exec.phase = "returned" /\ maxAttempts = 5
  /\ Len(exec.responses) = 4 /\ exec.sleeps = <<1, 2, 3>>
  /\ exec.responses[1].status = 500 /\ exec.responses[3].status = 429

\* --------------------------------------------------- claims on the delays

\* C21: the delay slept after attempt n is min(maxDelay, baseDelay * 2^(n-1))
\* plus a whole jitter in 0..99; it never exceeds maxDelay + 99; with the
\* default settings 500 / 5000 / 5 the delays less their jitter are 500, 1000,
\* 2000 and 4000 ms for n = 1, 2, 3, 4.
C21_BackoffDelay ==
  timer.attempt >= 1 =>
    LET n == timer.attempt
        doubled == timer.baseDelayMs * 2^(n - 1)
    IN  /\ n < maxAttempts
        /\ timer.jitter \in 0..99
        /\ timer.ms - timer.jitter \in {doubled, timer.maxDelayMs}
        /\ timer.ms - timer.jitter <= doubled
        /\ timer.ms - timer.jitter <= timer.maxDelayMs
        /\ timer.ms <= timer.maxDelayMs + 99
        /\ (timer.baseDelayMs = 500 /\ timer.maxDelayMs = 5000 /\ maxAttempts = 5) =>
             timer.ms - timer.jitter = <<500, 1000, 2000, 4000>>[n]

C21_Witness ==
  /\ timer.baseDelayMs = 500 /\ timer.maxDelayMs = 5000 /\ maxAttempts = 5
  /\ timer.attempt = 4 /\ timer.jitter = 99 /\ timer.ms = 4099

\* C22: no two of the requests built since the process started carry the
\* same transaction id.
C22_TrxIdsUnique ==
  \A i, j \in 1..Len(trx.issued) :
    i # j => trx.issued[i].trxid # trx.issued[j].trxid

\* ------------------------------------------------- claims on the answers

\* the text between the first and the last character that is not whitespace
core(s) ==
  LET inked == {i \in DOMAIN s : s[i] \notin Whitespace}
  IN  IF inked = {} THEN <<>>
      ELSE SubSeq(s, CHOOSE i \in inked : \A j \in inked : i <= j,
                     CHOOSE i \in inked : \A j \in inked : i >= j)

CasePairs ==
  {<<"a", "A">>, <<"b", "B">>, <<"c", "C">>, <<"d", "D">>, <<"m", "M">>,
   <<"t", "T">>, <<"w", "W">>}

sameLetter(c, d) == c = d \/ <<c, d>> \in CasePairs \/ <<d, c>> \in CasePairs

\* equal but for case and for whitespace around them
sameToken(a, b) ==
  /\ Len(core(a)) = Len(core(b))
  /\ \A i \in 1..Len(core(a)) : sameLetter(core(a)[i], core(b)[i])

\* C23: an answer accepted on a session is reported correct, and adds one to
\* currentScore, exactly when it equals the correct-answer token of the
\* current question but for case and surrounding whitespace; otherwise
\* currentScore stays as it was.
C23_AnswerComparison ==
  [][\A t \in Tasks :
       (AnswerStep(t) /\ result'[t].kind = "value") =>
         LET before == sessionStore[from[t]]
             currentQ == before.questions[before.currentQuestionIndex + 1]
             matches == sameToken(currentQ.correctAnswer, message[t])
         IN  /\ result'[t].correct <=> matches
             /\ result'[t].session.currentScore =
                  before.currentScore + (IF matches THEN 1 ELSE 0)
             /\ result'[t].score = result'[t].session.currentScore]_vars

\* C23 witness: " a " was taken for the token "A", and "B" for " b"
C23_Witness ==
  \E t1, t2 \in Tasks :
    /\ t1 # t2
    /\ pc[t1] = "answered" /\ message[t1] = <<" ", "a", " ">>
    /\ result[t1].kind = "value" /\ result[t1].correct
    /\ result[t1].session.questions[1].correctAnswer = <<"A">>
    /\ result[t1].session.currentQuestionIndex = 1
    /\ pc[t2] = "answered" /\ message[t2] = <<"B">>
    /\ result[t2].kind = "value" /\ result[t2].correct
    /\ result[t2].session.questions[2].correctAnswer = <<" ", "b">>
    /\ result[t2].session.currentScore = 2

\* the subscriber has a session in the store that is not completed
activeSession(store, s) == hasSession(store, s) /\ ~getSession(store, s).isCompleted

\* C24: every answer submitted on an active session is accepted, moves the
\* index on by exactly one, and leaves currentScore as it was unless the
\* answer matches the current question's token; the session that stays in
\* the store is at the next question.
C24_EveryAnswerAdvances ==
  [][\A t \in Tasks :
       (AnswerStep(t) /\ activeSession(sessionStore, from[t])) =>
         LET before == sessionStore[from[t]]
             after == result'[t].session
         IN  /\ result'[t].kind = "value"
             /\ after.currentQuestionIndex = before.currentQuestionIndex + 1
             /\ after.currentScore \in {before.currentScore, before.currentScore + 1}
             /\ ~result'[t].correct => after.currentScore = before.currentScore
             /\ activeSession(sessionStore', from[t]) =>
                  sessionStore'[from[t]].currentQuestionIndex
                    = before.currentQuestionIndex + 1]_vars

\* C25: when startQuiz of a dispatch completes, the subscriber's stored
\* session is at index 0 with score 0, not completed, and holds the questions
\* just fetched, whatever session the subscriber had before and whatever
\* answers were processed while the questions were being fetched.
C25_StartOverwrites ==
  [][\A t \in Tasks :
       StartStep(t) =>
         /\ hasSession(sessionStore', from[t])
         /\ LET session == sessionStore'[from[t]]
            IN  /\ session.currentQuestionIndex = 0
                /\ session.currentScore = 0
                /\ ~session.isCompleted
                /\ session.aggregateScore = 0
                /\ questionAt(session.questions, 0) = firstQ'[t]]_vars

\* C25 witness: a start has just stored a fresh session over one that an
\* answer, whose reply is still being composed, had moved to index 1
C25_Witness ==
  \E t1, t2 \in Tasks :
    /\ t1 # t2 /\ from[t1] = from[t2]
    /\ pc[t1] = "started"
    /\ pc[t2] = "answered" /\ result[t2].kind = "value" /\ ~result[t2].done
    /\ result[t2].session.currentQuestionIndex = 1
    /\ result[t2].session.currentScore = 1
    /\ sessionStore[from[t1]].currentQuestionIndex = 0
    /\ sessionStore[from[t1]].currentScore = 0

\* ------------------------------------------------ claims on the full quiz

\* the purposes of the calls dispatch t has issued, in order
purposes(t) == [i \in 1..Len(calls[t]) |-> calls[t][i].purpose]

\* C26: after "BTD" from subscriber 2547000000 the dispatcher has called
\* notify, subscribe(DAILY), charge(DAILY) and then start, and replies with
\* question 1; once the subscriber has answered ten questions since that
\* start, all ten correctly, the answer reports the quiz done, the session is
\* no longer in the store, and the reply is
\* "Quiz complete! Your score: 10/10. Aggregate: 10".
C26_FullQuizDialogue ==
  \A t \in DialogueTasks :
    /\ (pc[t] \in {"started", "reply"} /\ keywordOf(message[t]) = BTD) =>
         /\ from[t] = "2547000000"
         /\ SubSeq(purposes(t), 1, 4) = <<"welcome", "subscribe", "charge", "start">>
         /\ \A i \in 1..4 : calls[t][i].state = "ok" /\ calls[t][i].to = from[t]
         /\ calls[t][2].plan = "DAILY" /\ calls[t][3].plan = "DAILY"
         /\ firstQ[t].id = 1
         /\ pc[t] = "reply" =>
              responseMsg[t] = "Quiz started!\nQ1: T1\nA) a1\nB) b1\nC) c1\nD) d1"
    /\ (pc[t] \in {"answered", "reply", "responded"} /\ result[t].kind = "value"
          /\ answerCount[from[t]] = 10 /\ correctCount[from[t]] = 10) =>
         /\ result[t].done
         /\ ~hasSession(sessionStore, from[t])
         /\ pc[t] # "answered" =>
              /\ responseMsg[t] = "Quiz complete! Your score: 10/10. Aggregate: 10"
              /\ calls[t][Len(calls[t])].purpose = "reply"
              /\ calls[t][Len(calls[t])].text = responseMsg[t]
              /\ calls[t][Len(calls[t])].to = "2547000000"

C26_Witness ==
  \E t \in DialogueTasks :
    /\ pc[t] = "responded" /\ http[t] = 200 /\ from[t] = "2547000000"
    /\ answerCount[from[t]] = 10 /\ correctCount[from[t]] = 10
    /\ result[t].kind = "value" /\ result[t].done
    /\ responseMsg[t] = "Quiz complete! Your score: 10/10. Aggregate: 10"
    /\ calls[t][Len(calls[t])].delivered
    /\ ~hasSession(sessionStore, from[t])

\* C27: the reply to the answer that completes a session is
\* "Quiz complete! Your score: <score>/<N>. Aggregate: <aggregateScore>" with
\* N the number of questions of that session.
C27_CompletionReplyCountsQuestions ==
  \A t \in Tasks :
    (pc[t] \in {"reply", "responded"} /\ result[t].kind = "value" /\ result[t].done) =>
      responseMsg[t] =
        "Quiz complete! Your score: " \o ToString(result[t].session.currentScore)
          \o "/" \o ToString(Len(result[t].session.questions))
          \o ". Aggregate: " \o ToString(result[t].session.aggregateScore)

\* ------------------------------------------------- claims on the store

\* the subscriber dispatch t works for in this step
servedBy(t) == IF pc[t] = "idle" THEN from'[t] ELSE from[t]

\* what the store holds for subscriber s: nothing, or the session
held(store, s) == IF hasSession(store, s) THEN {getSession(store, s)} ELSE {}

\* C28: a step of a dispatch for one subscriber (the request arriving, its
\* start, its answer, its calls and its reply) leaves every other
\* subscriber's session as it was: there or not, and with the same index,
\* score and questions.
C28_SubscribersAreIsolated ==
  [][\A t \in Tasks :
       pc'[t] # pc[t] =>
         \A other \in Callers \ {servedBy(t)} :
           held(sessionStore', other) = held(sessionStore, other)]_vars

\* C28 witness: the answer of one subscriber has just moved its session to
\* index 1 while the other subscriber's session stands at index 0
C28_Witness ==
  /\ pc["d1"] = "answered" /\ result["d1"].kind = "value"
  /\ from["d1"] = "2547000000" /\ from["d2"] = "2547000001"
  /\ pc["d2"] = "started"
  /\ hasSession(sessionStore, "2547000000") /\ hasSession(sessionStore, "2547000001")
  /\ sessionStore["2547000000"].currentQuestionIndex = 1
  /\ sessionStore["2547000001"].currentQuestionIndex = 0
  /\ Len(sessionStore["2547000000"].questions) = 2
  /\ Len(sessionStore["2547000001"].questions) = 1

\* C29: a subscriber's session leaves the store only in the step in which an
\* answer of that subscriber brings the index to the number of questions,
\* and a stored session changes only by such an answer moving it on by one or
\* by a start of that subscriber replacing it with a fresh one; every other
\* step (a failed call, an answer without a session, a rejected request, a
\* reply) leaves it as it was.
C29_SessionEndsOnlyByCompletion ==
  [][\A s \in Subscribers :
       /\ (hasSession(sessionStore, s) /\ ~hasSession(sessionStore', s)) =>
            \E t \in Tasks :
              /\ AnswerStep(t) /\ from[t] = s
              /\ result'[t].kind = "value" /\ result'[t].done
              /\ result'[t].session.currentQuestionIndex
                   = sessionStore[s].currentQuestionIndex + 1
              /\ result'[t].session.currentQuestionIndex
                   = Len(sessionStore[s].questions)
       /\ (hasSession(sessionStore, s) /\ hasSession(sessionStore', s)
             /\ sessionStore'[s] # sessionStore[s]) =>
            \E t \in Tasks :
              /\ from[t] = s
              /\ \/ /\ StartStep(t)
                    /\ sessionStore'[s].currentQuestionIndex = 0
                    /\ sessionStore'[s].currentScore = 0
                 \/ /\ AnswerStep(t)
                    /\ sessionStore'[s].questions = sessionStore[s].questions
                    /\ sessionStore'[s].currentQuestionIndex
                         = sessionStore[s].currentQuestionIndex + 1
                    /\ sessionStore'[s].currentQuestionIndex
                         < Len(sessionStore[s].questions)]_vars

\* C29 witness: the reply to an accepted answer failed to be delivered and
\* another request was rejected for a missing field, and the session is
\* still in the store at index 1
C29_Witness ==
  \E t1, t2 \in Tasks :
    /\ pc[t1] = "responded" /\ thrown[t1] = "sendSms"
    /\ result[t1].kind = "value" /\ ~result[t1].done
    /\ pc[t2] = "responded" /\ http[t2] = 400
    /\ hasSession(sessionStore, from[t1])
    /\ sessionStore[from[t1]].currentQuestionIndex = 1

\* the keys under which the store holds a session of subscriber s
sessionsOf(s) == {p \in DOMAIN sessionStore : sessionStore[p].phoneNumber = s}

\* C30: the store never holds more than one session of a subscriber: every
\* session is kept under the number of the subscriber it belongs to, so the
\* sessions of a subscriber are at most the one under that number, whichever
\* starts and answers of the subscriber are in flight.
C30_OneSessionPerSubscriber ==
  /\ \A p \in DOMAIN sessionStore : sessionStore[p].phoneNumber = p
  /\ \A s \in Callers : Cardinality(sessionsOf(s)) <= 1

\* C30 witness: two starts of one subscriber have both stored their session
\* and the store holds one session of that subscriber
C30_Witness ==
  \E t1, t2 \in Tasks :
    /\ t1 # t2 /\ from[t1] = from[t2]
    /\ pc[t1] = "started" /\ pc[t2] = "started"
    /\ firstQ[t1] # firstQ[t2]
    /\ Cardinality(sessionsOf(from[t1])) = 1

\* ------------------------------------------- claims on the start keywords

\* the calls dispatch t issued before it called startQuiz
beforeStart(t) == SubSeq(purposes(t), 1, Len(calls[t]) - 1)

\* C31 as stated: whichever start keyword a subscriber with an active
\* session sends, the dispatch has run notify, subscribe and charge by the
\* time it calls startQuiz.
C31_AllThreeForEveryKeyword ==
  \A t \in DialogueTasks :
    (pc[t] = "starting" /\ activeSession(sessionStore, from[t])) =>
      beforeStart(t) = <<"welcome", "subscribe", "charge">>

\* C31: a start keyword from a subscriber who has an active session runs
\* the outbound calls of its branch again before the quiz restarts: for
\* "BTD" the welcome notify, subscribe(DAILY) and charge(DAILY), each
\* returned, for "BTW" and "BTM" the welcome notify alone; the session in
\* the store neither cancels nor shortens them.
C31_RestartRunsKeywordActions ==
  \A t \in DialogueTasks :
    (pc[t] = "starting" /\ activeSession(sessionStore, from[t])) =>
      /\ isStartKeyword(message[t])
      /\ \A i \in 1..(Len(calls[t]) - 1) :
           calls[t][i].state = "ok" /\ calls[t][i].to = from[t]
      /\ IF keywordOf(message[t]) = BTD
         THEN /\ beforeStart(t) = <<"welcome", "subscribe", "charge">>
              /\ calls[t][2].plan = "DAILY" /\ calls[t][3].plan = "DAILY"
         ELSE beforeStart(t) = <<"welcome">>

C31_Witness ==
  \E t \in DialogueTasks :
    /\ pc[t] = "starting" /\ keywordOf(message[t]) = BTD
    /\ activeSession(sessionStore, from[t])
    /\ getSession(sessionStore, from[t]).currentQuestionIndex = 1
    /\ beforeStart(t) = <<"welcome", "subscribe", "charge">>

\* the text is a start keyword but for case and for whitespace around it
spellsKeyword(msg) == \E k \in {BTD, BTW, BTM} : sameToken(msg, k)

\* C32: a valid request whose text is a start keyword in any casing and
\* with any whitespace around it takes the start flow: the welcome notify is
\* issued and the text is not scored (store, result and answer counts stay
\* as they were); every other text is handed to processAnswer and no call
\* is issued in that step.
C32_KeywordRouting ==
  [][\A t \in Tasks :
       (pc[t] = "pending" /\ validRequest(t) /\ pc'[t] # "pending") =>
         IF spellsKeyword(message[t])
         THEN /\ pc'[t] = "welcome"
              /\ purposes(t)' = <<"welcome">> /\ calls'[t][1].to = from[t]
              /\ sessionStore' = sessionStore
              /\ result'[t] = NoResult
              /\ answerCount' = answerCount /\ correctCount' = correctCount
         ELSE /\ pc'[t] = "answered"
              /\ result'[t].kind \in {"error", "value", "threw"}
              /\ calls'[t] = <<>>]_vars

C32_Witness ==
  \E t \in Tasks :
    /\ pc[t] = "welcome" /\ message[t] = <<" ", "b", "t", "d">>
    /\ activeSession(sessionStore, from[t])
    /\ getSession(sessionStore, from[t]).currentQuestionIndex = 1
    /\ answerCount[from[t]] = 1
    /\ result[t] = NoResult

\* ------------------------------------------ claims on the start endpoint

\* dispatch t is a POST /start request being served
onStartEndpoint(t) == pc[t] \in {"startPending", "startFetching", "startFetched"}

\* the gateway calls dispatch t has issued
gatewayCalls(t) ==
  {i \in 1..Len(calls[t]) : calls[t][i].kind \in {"notify", "subscribe", "charge"}}

\* C33: a POST /start request with a phoneNumber calls startQuiz and nothing
\* else: when it is answered 200 the store holds a fresh session for that
\* phoneNumber and no notify, subscribe or charge was issued; a request
\* without phoneNumber is answered 400 with the store and the call log as
\* they were.
C33_StartEndpoint ==
  [][\A t \in DialogueTasks :
       (onStartEndpoint(t) /\ pc'[t] # pc[t]) =>
         /\ gatewayCalls(t)' = {}
         /\ pc[t] = "startPending" =>
              /\ sessionStore' = sessionStore
              /\ IF from[t] = ""
                 THEN http'[t] = 400 /\ pc'[t] = "responded" /\ calls'[t] = <<>>
                 ELSE pc'[t] = "startFetching" /\ purposes(t)' = <<"start">>
         /\ (pc[t] = "startFetching" /\ pc'[t] = "startFetched") =>
              /\ hasSession(sessionStore', from[t])
              /\ getSession(sessionStore', from[t]).phoneNumber = from[t]
              /\ getSession(sessionStore', from[t]).currentQuestionIndex = 0
              /\ getSession(sessionStore', from[t]).currentScore = 0
              /\ \A s \in DOMAIN sessionStore' \ {from[t]} :
                   s \in DOMAIN sessionStore /\ sessionStore'[s] = sessionStore[s]
         /\ pc[t] = "startFetched" =>
              http'[t] = 200 /\ sessionStore' = sessionStore]_vars

C33_Witness ==
  \E t \in DialogueTasks :
    /\ pc[t] = "responded" /\ http[t] = 200
    /\ purposes(t) = <<"start">>
    /\ hasSession(sessionStore, from[t])
    /\ Len(getSession(sessionStore, from[t]).questions) = MaxRows

\* ------------------------------------------ claims on the stored session

\* C34: every session in the store has its currentQuestionIndex strictly
\* below the number of its questions, whatever number of questions the
\* provider returned, so no processAnswer call reads a question that is not
\* there.
C34_IndexWithinQuestions ==
  /\ \A s \in DOMAIN sessionStore :
       sessionStore[s].currentQuestionIndex < Len(sessionStore[s].questions)
  /\ \A t \in Tasks : result[t].kind # "threw"

\* call i of dispatch t has returned and the gateway took it
succeeded(t, i) == calls[t][i].state = "ok" /\ calls[t][i].delivered

\* C35: the step in which a "BTD" dispatch stores its session comes after
\* the welcome notify, subscribe(DAILY) and charge(DAILY) of that same
\* dispatch have each returned with the gateway's acceptance, in that order,
\* whatever the other dispatch does meanwhile; no other step of a "BTD"
\* dispatch touches the store.
C35_SessionOnlyAfterCharge ==
  [][\A t \in Tasks :
       (keywordOf(message[t]) = BTD /\ validRequest(t) /\ pc'[t] # pc[t]) =>
         IF StartStep(t)
         THEN /\ purposes(t) = <<"welcome", "subscribe", "charge", "start">>
              /\ \A i \in 1..3 : succeeded(t, i) /\ calls[t][i].to = from[t]
              /\ calls[t][2].plan = "DAILY" /\ calls[t][3].plan = "DAILY"
         ELSE sessionStore' = sessionStore]_vars

C35_Witness ==
  \E t \in Tasks :
    /\ pc[t] = "started" /\ keywordOf(message[t]) = BTD
    /\ hasSession(sessionStore, from[t])
    /\ getSession(sessionStore, from[t]).currentQuestionIndex = 0
    /\ \A i \in 1..3 : succeeded(t, i)
    /\ \E u \in Tasks \ {t} : pc[u] \in {"welcome", "subscribe", "charge"}

\* -------------------------------------------- claims on the retried calls

\* C36: every post of one subscribeUser or chargeUser call, the first and
\* each retry, carries the transaction id of the payload built when the call
\* began, and there is one post per attempt made.
C36_RetriesShareTrxId ==
  exec.kind \in {"subscribe", "charge"} =>
    /\ exec.trxid # ""
    /\ Len(exec.posted) =
         Len(exec.responses) + (IF exec.phase = "posting" THEN 1 ELSE 0)
    /\ \A i \in 1..Len(exec.posted) : exec.posted[i] = exec.trxid

C36_Witness ==
  /\ exec.kind = "charge" /\ exec.phase = "returned"
  /\ Len(exec.posted) = 3 /\ Len(exec.sleeps) = 2
  /\ exec.posted[1] = exec.posted[3]

\* ------------------------------------------------- claims on the scoring

\* C37: every session in the store has 0 <= currentScore <=
\* currentQuestionIndex, its score being the number of matching answers
\* given since its start; and the score each processAnswer call returns is
\* the number of matching answers given so far in that session, this one
\* included.
C37_ScoreCountsMatches ==
  /\ [](\A s \in DOMAIN sessionStore :
         /\ 0 <= sessionStore[s].currentScore
         /\ sessionStore[s].currentScore <= sessionStore[s].currentQuestionIndex
         /\ sessionStore[s].currentScore = correctCount[s])
  /\ [][\A t \in Tasks :
          (AnswerStep(t) /\ result'[t].kind = "value") =>
            /\ result'[t].score = correctCount'[from[t]]
            /\ 0 <= result'[t].score
            /\ result'[t].score <= result'[t].session.currentQuestionIndex]_vars

C37_Witness ==
  \E t \in Tasks :
    /\ pc[t] = "answered" /\ result[t].kind = "value" /\ result[t].correct
    /\ result[t].score = 1 /\ correctCount[from[t]] = 1
    /\ answerCount[from[t]] = 2
    /\ result[t].session.currentQuestionIndex = 2

\* C38: no session in the store has isCompleted true, the completing
\* answer deleting the session in the step that marks it; so whenever
\* processAnswer answers "No active quiz session" the subscriber has no
\* session in the store.
C38_NoCompletedSessionStored ==
  /\ [](\A s \in DOMAIN sessionStore : ~sessionStore[s].isCompleted)
  /\ [][\A t \in Tasks :
          (AnswerStep(t) /\ result'[t].kind = "error") =>
            ~hasSession(sessionStore, from[t])]_vars

C38_Witness ==
  \E t \in Tasks :
    /\ pc[t] = "answered" /\ result[t].kind = "error"
    /\ lastAggregate[from[t]] >= 1
    /\ ~hasSession(sessionStore, from[t])
    /\ \A u \in Tasks \ {t} : pc[u] = "idle"

====
